---- MODULE Spec2Model ----
(***************************************************************************)
(* Gravatar Wasm foreign data wrapper (src/src/lib.rs): the connector's    *)
(* single instance (base_url, headers, scanned_profiles, scan_index) and   *)
(* the handlers the host calls on it, one call at a time.                  *)
(*                                                                         *)
(* Strings the code inspects character by character (lookup keys, JSON     *)
(* string values, header values) are sequences of one-character strings;   *)
(* strings the code only compares or copies are TLA+ strings.              *)
(***************************************************************************)
EXTENDS Integers, Sequences, FiniteSets, TLC

\* Longest predicate list the host passes to begin_scan.
MaxQuals == 3

\* Longest predicate list of the scans whose rows are projected.
MaxRowQuals == 2

\* Longest lookup key of the scans that compare keys.
MaxKeyLen == 2

\* iter_scan calls followed after one cursor reset: enough to read every
\* buffered record and to hit end-of-scan twice more.
MaxIters == MaxQuals + 2

SeqsUpTo(S, n) == UNION {[1..k -> S] : k \in 0..n}

Min(a, b) == IF a < b THEN a ELSE b

(***************************************************************************)
(* 64-bit integers: four 16-bit limbs, least significant first.  An i64 is *)
(* its two's complement, so `as u64` keeps the limbs and reads them as an  *)
(* unsigned number.                                                        *)
(***************************************************************************)
Limb == 65536

\* The limbs of a small non-negative number
U64(n) == <<n % Limb, (n \div Limb) % Limb, 0, 0>>

\* The limbs of -n for a small n > 0: a negative i64
NegI64(n) == <<(-n) % Limb, ((-n) \div Limb) % Limb, Limb - 1, Limb - 1>>

\* u64 `>`
u64_gt(a, b) == \E i \in 1..4 : a[i] > b[i] /\ \A j \in (i + 1)..4 : a[j] = b[j]

\* u64 `-` for a >= b
u64_sub(a, b) ==
    LET d1 == a[1] - b[1]
        d2 == a[2] - b[2] - (IF d1 < 0 THEN 1 ELSE 0)
        d3 == a[3] - b[3] - (IF d2 < 0 THEN 1 ELSE 0)
        d4 == a[4] - b[4] - (IF d3 < 0 THEN 1 ELSE 0)
    IN  <<(d1 + Limb) % Limb, (d2 + Limb) % Limb, (d3 + Limb) % Limb, (d4 + Limb) % Limb>>

\* `epoch_secs() as u64`: the same 64 bits
as_u64(i64) == i64

(***************************************************************************)
(* Strings                                                                 *)
(***************************************************************************)
\* char::to_lowercase on the characters the model uses
lower_char(c) ==
    CASE c = "A" -> "a"
      [] c = "B" -> "b"
      [] OTHER -> c

keep_case(s) == s

\* str::to_lowercase
to_lowercase(s) == [i \in 1..Len(s) |-> lower_char(s[i])]

\* char::is_whitespace on the characters the model uses
is_whitespace(c) == c \in {" ", "\t"}

RECURSIVE trim_start(_)
trim_start(s) ==
    IF s # <<>> /\ is_whitespace(Head(s)) THEN trim_start(Tail(s)) ELSE s

RECURSIVE trim_end(_)
trim_end(s) ==
    IF s # <<>> /\ is_whitespace(s[Len(s)])
    THEN trim_end(SubSeq(s, 1, Len(s) - 1))
    ELSE s

\* str::trim
trim(s) == trim_end(trim_start(s))

\* Sha256 digest rendered as lowercase hex: one identifier per input byte
\* string (the digest is taken to be collision free), never the input itself.
Sha256Hex(bytes) == <<"sha256:">> \o bytes

hash_email(email) == Sha256Hex(to_lowercase(trim(email)))

\* "{base_url}/{hash}"
build_url(base, email) == [base |-> base, id |-> hash_email(email)]

(***************************************************************************)
(* JSON documents (serde_json::Value)                                      *)
(***************************************************************************)
JNull == [t |-> "Null"]
JBool(b) == [t |-> "Bool", b |-> b]
\* An integer that fits i64, as four 16-bit limbs (least significant first,
\* two's complement): the host's integers are wider than TLC's.
JNum(limbs) == [t |-> "Number", n |-> limbs]
JStr(s) == [t |-> "String", s |-> s]
JArr(items) == [t |-> "Array", items |-> items]
JObj(m) == [t |-> "Object", m |-> m]

None == [some |-> FALSE]
Some(x) == [some |-> TRUE, v |-> x]

\* Value::get(key): a member of an object, nothing for any other value
get(v, key) ==
    IF v.t = "Object" /\ key \in DOMAIN v.m THEN Some(v.m[key]) ELSE None

\* Map::insert: adds the member or replaces the one already there
map_insert(m, key, val) ==
    [k \in DOMAIN m \cup {key} |-> IF k = key THEN val ELSE m[k]]

\* Response bodies the transport may hand back.
BodyProfile == "{\"hash\":\"h\",\"display_name\":\"D\"}"
BodyHtml == "<html>Service Unavailable</html>"
BodyEmpty == ""
BodyUpstream == "{\"hash\":\"h\",\"email\":\"u\"}"
BodyArray == "[]"
BodyTyped == "{\"hash\":\"h\",\"is_organization\":true,\"number_verified_accounts\":3,\"links\":[null],\"nick\":\"n\",\"flag\":false,\"score\":-7,\"total\":4294967297}"
BodyMistyped == "{\"hash\":5,\"is_organization\":\"yes\",\"number_verified_accounts\":\"3\",\"links\":null,\"nick\":1,\"flag\":\"no\",\"score\":\"x\"}"

ParseErr == [ok |-> FALSE]
ParseOk(v) == [ok |-> TRUE, value |-> v]

\* serde_json::from_str on those bodies
from_str(body) ==
    CASE body = BodyProfile ->
            ParseOk(JObj([k \in {"hash", "display_name"} |->
                            IF k = "hash" THEN JStr(<<"h">>) ELSE JStr(<<"D">>)]))
      [] body = BodyUpstream ->
            ParseOk(JObj([k \in {"hash", "email"} |->
                            IF k = "hash" THEN JStr(<<"h">>) ELSE JStr(<<"u">>)]))
      [] body = BodyArray -> ParseOk(JArr(<<>>))
      [] body = BodyTyped ->
            ParseOk(JObj([k \in {"hash", "is_organization", "number_verified_accounts",
                                 "links", "nick", "flag", "score", "total"} |->
                            CASE k = "hash" -> JStr(<<"h">>)
                              [] k = "is_organization" -> JBool(TRUE)
                              [] k = "number_verified_accounts" -> JNum(U64(3))
                              [] k = "links" -> JArr(<<JNull>>)
                              [] k = "nick" -> JStr(<<"n">>)
                              [] k = "flag" -> JBool(FALSE)
                              [] k = "score" -> JNum(NegI64(7))
                              [] k = "total" -> JNum(<<1, 0, 1, 0>>)]))
      [] body = BodyMistyped ->
            ParseOk(JObj([k \in {"hash", "is_organization", "number_verified_accounts",
                                 "links", "nick", "flag", "score"} |->
                            CASE k = "hash" -> JNum(U64(5))
                              [] k = "is_organization" -> JStr(<<"y", "e", "s">>)
                              [] k = "number_verified_accounts" -> JStr(<<"3">>)
                              [] k = "links" -> JNull
                              [] k = "nick" -> JNum(U64(1))
                              [] k = "flag" -> JStr(<<"n", "o">>)
                              [] k = "score" -> JStr(<<"x">>)]))
      [] OTHER -> ParseErr

(***************************************************************************)
(* What the host and the collaborators supply                              *)
(***************************************************************************)
PROFILES_OBJECT == "profiles"

DefaultApiUrl == "https://api.gravatar.com/v3/profiles"

\* Options: a list of (key, value) pairs; get returns the first match.
NoOption == [some |-> FALSE]

RECURSIVE opts_get(_, _)
opts_get(opts, key) ==
    IF opts = <<>> THEN NoOption
    ELSE IF Head(opts)[1] = key THEN Some(Head(opts)[2])
    ELSE opts_get(Tail(opts), key)

require_or(opts, key, default) ==
    LET o == opts_get(opts, key) IN IF o.some THEN o.v ELSE default

\* Cells (types::Cell) and the absent cell.
CellBool(b) == [t |-> "Bool", b |-> b]
CellString(s) == [t |-> "String", s |-> s]
CellI32(n) == [t |-> "I32", n |-> n]
CellI64(limbs) == [t |-> "I64", n |-> limbs]
CellJson(text) == [t |-> "Json", s |-> text]

\* Qual values (types::Value): one cell, or an array of cells (email IN (...)).
ValueCell(c) == [kind |-> "Cell", cell |-> c]
ValueArray(cs) == [kind |-> "Array", cells |-> cs]

Qual(f, o, v) == [field |-> f, operator |-> o, value |-> v]

KeyA == <<"a">>
KeyB == <<" ", "B">>

QualA == Qual("email", "=", ValueCell(CellString(KeyA)))
QualB == Qual("email", "=", ValueCell(CellString(KeyB)))
QualName == Qual("name", "=", ValueCell(CellString(<<"x">>)))
QualNe == Qual("email", "<>", ValueCell(CellString(KeyA)))
QualIn == Qual("email", "=", ValueArray(<<CellString(KeyA), CellString(KeyB)>>))

\* Predicate lists whose every predicate yields a key, and predicate lists
\* of every shape.
ScanQuals == SeqsUpTo({QualA, QualB}, MaxQuals)
AllQuals == SeqsUpTo({QualA, QualB, QualName, QualNe, QualIn}, MaxQuals)

\* Table options of a scan.
TableOptions == {<<>>, <<<<"table", "profiles">>>>, <<<<"table", "Profiles">>>>}

\* What http::get returns: a response, or the transport's own error.
Response(code, hdrs, body) ==
    [err |-> FALSE, status_code |-> code, headers |-> hdrs, body |-> body]
TransportErr ==
    [err |-> TRUE, status_code |-> 0, headers |-> <<>>, body |-> BodyEmpty]

Resp200 == Response(200, <<>>, BodyProfile)
Resp200Bad == Response(200, <<>>, BodyHtml)
Resp404 == Response(404, <<>>, BodyEmpty)
Resp500 == Response(500, <<>>, BodyHtml)
Resp429 == Response(429, <<>>, BodyEmpty)

ScanResponses == {Resp200, Resp200Bad, Resp404, Resp500, Resp429, TransportErr}

\* Server options of init: public access, or a direct API key.
ServerOptions == {<<>>, <<<<"api_key", "k">>>>}

\* Server options of every shape: with and without api_url, api_key (one of
\* them empty) and api_key_id; and what the vault answers for a secret id.
InitOptions ==
    { <<>>,
      <<<<"api_url", "https://proxy">>>>,
      <<<<"api_key", "k">>>>,
      <<<<"api_key", "">>>>,
      <<<<"api_key_id", "id">>>>,
      <<<<"api_key_id", "id">>, <<"api_key", "k">>>>,
      <<<<"api_url", "https://proxy">>, <<"api_key_id", "id">>>> }
VaultAnswers == {None, Some(""), Some("s")}

\* Columns the host asks iter_scan for.
Column(n, oid) == [name |-> n, type_oid |-> oid]
ColumnLists ==
    { <<Column("email", "String"), Column("hash", "String"), Column("company", "String")>>,
      <<Column("json", "Json")>> }

\* The clock collaborator's answers (epoch seconds, i64).
ClockValues == {U64(100)}

\* Values of an x-ratelimit-reset header: decimal integers with and without
\* a sign, the largest u64 and the integer after it, and a word.
Text0 == <<"0">>
Text150 == <<"1", "5", "0">>
TextPlus150 == <<"+", "1", "5", "0">>
TextMinus5 == <<"-", "5">>
TextU64Max == <<"1", "8", "4", "4", "6", "7", "4", "4", "0", "7",
                "3", "7", "0", "9", "5", "5", "1", "6", "1", "5">>
TextOverU64 == <<"1", "8", "4", "4", "6", "7", "4", "4", "0", "7",
                 "3", "7", "0", "9", "5", "5", "1", "6", "1", "6">>
TextSoon == <<"s", "o", "o", "n">>
ResetTexts == {Text0, Text150, TextPlus150, TextMinus5, TextU64Max, TextOverU64, TextSoon}

\* 429 answers: without the header, and with it under either spelling.
Rate429(name, text) == Response(429, <<<<"retry-after", <<"1">>>>, <<name, text>>>>, BodyEmpty)
RateResponses ==
    {Resp200, Resp429}
    \cup {Rate429(name, text) : name \in {"x-ratelimit-reset", "X-RateLimit-Reset"},
                                text \in ResetTexts}

\* Clock answers before, at and after a reset of 150, and a clock before
\* the epoch.
RateClockValues == {U64(100), U64(150), U64(200), NegI64(1)}

\* Answers whose body is a JSON document of one shape or another, and the
\* predicate lists and column lists of the scans that project them.
RespUpstream == Response(200, <<>>, BodyUpstream)
RespArray == Response(200, <<>>, BodyArray)
RespTyped == Response(200, <<>>, BodyTyped)
RespMistyped == Response(200, <<>>, BodyMistyped)
RowResponses == {Resp200, RespUpstream, RespArray, RespTyped, RespMistyped, Resp404}

RowQuals == SeqsUpTo({QualA, QualB}, MaxRowQuals)

RowTableOptions == TableOptions \cup {<<<<"table", "users">>>>}

RowColumnLists ==
    { <<Column("email", "String"), Column("hash", "String"), Column("company", "String")>>,
      <<Column("json", "Json")>>,
      <<Column("is_organization", "Bool"), Column("number_verified_accounts", "I64"),
        Column("links", "Json"), Column("hash", "Bool")>>,
      <<Column("nick", "String"), Column("flag", "Bool"), Column("score", "I32"),
        Column("total", "I64"), Column("nick", "Json")>>,
      <<Column("total", "I32"), Column("score", "I64"), Column("flag", "String"),
        Column("nick", "Bool"), Column("absent", "Json")>>,
      <<Column("nick", "F64"), Column("score", "Timestamp")>> }

\* Lookup keys of every spelling over a letter in both cases, a space and a
\* tab, and the predicate lists of one or two of them.
Keys == SeqsUpTo({"a", "A", " ", "\t"}, MaxKeyLen)
KeyQual(key) == Qual("email", "=", ValueCell(CellString(key)))
KeyQuals ==
    {<<KeyQual(k)>> : k \in Keys} \cup {<<KeyQual(k[1]), KeyQual(k[2])>> : k \in Keys \X Keys}

\* Predicate lists of one repeated key.
RateQuals == SeqsUpTo({QualA}, MaxQuals)

(***************************************************************************)
(* Row projection (iter_scan, lines 212-255)                               *)
(***************************************************************************)
as_str(v) == IF v.t = "String" THEN Some(v.s) ELSE None
as_bool(v) == IF v.t = "Bool" THEN Some(v.b) ELSE None
as_i64(v) == IF v.t = "Number" THEN Some(v.n) ELSE None

\* `i as i32`: the low 32 bits of the integer, read as a signed number
as_i32(limbs) ==
    (IF limbs[2] >= 32768 THEN limbs[2] - 65536 ELSE limbs[2]) * 65536 + limbs[1]

and_then(o, F(_)) == IF o.some THEN F(o.v) ELSE None
map(o, F(_)) == IF o.some THEN Some(F(o.v)) ELSE None

\* Member names in the order serde_json's map keeps them (sorted).
FieldOrder ==
    <<"company", "display_name", "email", "flag", "hash", "is_organization", "links",
      "nick", "number_verified_accounts", "score", "total">>

NumberText(limbs) ==
    "i64:" \o ToString(limbs[4]) \o ":" \o ToString(limbs[3]) \o ":"
           \o ToString(limbs[2]) \o ":" \o ToString(limbs[1])

RECURSIVE to_string(_)
RECURSIVE members_text(_, _, _)
RECURSIVE items_text(_, _)

\* Value::to_string: the compact JSON text, as a list of tokens
to_string(v) ==
    CASE v.t = "Null" -> <<"null">>
      [] v.t = "Bool" -> IF v.b THEN <<"true">> ELSE <<"false">>
      [] v.t = "Number" -> <<NumberText(v.n)>>
      [] v.t = "String" -> <<"\"">> \o v.s \o <<"\"">>
      [] v.t = "Array" -> <<"[">> \o items_text(v.items, TRUE) \o <<"]">>
      [] v.t = "Object" -> <<"{">> \o members_text(v.m, FieldOrder, TRUE) \o <<"}">>

members_text(m, keys, first) ==
    IF keys = <<>> THEN <<>>
    ELSE IF Head(keys) \notin DOMAIN m THEN members_text(m, Tail(keys), first)
    ELSE (IF first THEN <<>> ELSE <<",">>)
         \o <<"\"", Head(keys), "\"", ":">> \o to_string(m[Head(keys)])
         \o members_text(m, Tail(keys), FALSE)

items_text(items, first) ==
    IF items = <<>> THEN <<>>
    ELSE (IF first THEN <<>> ELSE <<",">>)
         \o to_string(Head(items)) \o items_text(Tail(items), FALSE)

StringFields ==
    {"hash", "email", "display_name", "profile_url", "avatar_url", "avatar_alt_text",
     "location", "description", "job_title", "company", "pronunciation", "pronouns",
     "timezone", "first_name", "last_name", "last_profile_edit", "registration_date"}
JsonFields ==
    {"verified_accounts", "languages", "links", "interests", "payments", "contact_info"}

string_cell(profile, name) ==
    map(and_then(get(profile, name), LAMBDA v : as_str(v)), LAMBDA x : CellString(x))
bool_cell(profile, name) ==
    map(and_then(get(profile, name), LAMBDA v : as_bool(v)), LAMBDA x : CellBool(x))
i64_cell(profile, name) ==
    map(and_then(get(profile, name), LAMBDA v : as_i64(v)), LAMBDA x : CellI64(x))
i32_cell(profile, name) ==
    map(and_then(get(profile, name), LAMBDA v : as_i64(v)), LAMBDA x : CellI32(as_i32(x)))
json_cell(profile, name) ==
    map(get(profile, name), LAMBDA v : CellJson(to_string(v)))

\* The cell of one target column: the match of lines 214-252
cell_of(profile, tgt_col) ==
    LET name == tgt_col.name IN
    CASE name \in StringFields -> string_cell(profile, name)
      [] name \in JsonFields -> json_cell(profile, name)
      [] name = "is_organization" -> bool_cell(profile, name)
      [] name = "number_verified_accounts" -> i64_cell(profile, name)
      [] name = "json" -> Some(CellJson(to_string(profile)))
      [] OTHER ->
            CASE tgt_col.type_oid = "Bool" -> bool_cell(profile, name)
              [] tgt_col.type_oid = "String" -> string_cell(profile, name)
              [] tgt_col.type_oid = "I32" -> i32_cell(profile, name)
              [] tgt_col.type_oid = "I64" -> i64_cell(profile, name)
              [] tgt_col.type_oid = "Json" -> json_cell(profile, name)
              [] OTHER -> None

project_present_only(profile, cols) ==
    SelectSeq([i \in 1..Len(cols) |-> cell_of(profile, cols[i])], LAMBDA c : c.some)

\* One cell pushed per target column, in the order asked
project(profile, cols) == [i \in 1..Len(cols) |-> cell_of(profile, cols[i])]

(***************************************************************************)
(* State                                                                   *)
(***************************************************************************)
VARIABLES
    base_url,          \* GravatarFdw.base_url
    headers,           \* GravatarFdw.headers: a list of (name, value)
    scanned_profiles,  \* GravatarFdw.scanned_profiles
    scan_index,        \* GravatarFdw.scan_index
    pc,                \* "uninit", "failed" (init returned Err), "idle" (between
                       \* calls), "fetch" (begin_scan is in its fetch loop)
    table_opts,        \* the table options of the running or last begin_scan
    quals,             \* the predicates of the running or last begin_scan's context
    emails_to_fetch,   \* begin_scan's local: the keys it collected
    requests,          \* the http requests the running or last call issued
    resps,             \* what http::get returned for each of them
    ret,               \* the running or last call and what it returned
    row,               \* the cells the last iter_scan pushed
    last_scan,         \* the last begin_scan or end_scan, and how it ended
    rescanned,         \* whether re_scan was called since
    iters,             \* iter_scan calls since the cursor was last set to 0
    served,            \* the profiles those calls read, in call order
    clock,             \* what time::epoch_secs() returned to the last call
    columns            \* ctx.get_columns() of the last call, when it is iter_scan

vars == <<base_url, headers, scanned_profiles, scan_index, pc, table_opts, quals,
          emails_to_fetch, requests, resps, ret, row, last_scan, rescanned, iters,
          served, clock, columns>>

this == <<base_url, headers, scanned_profiles, scan_index>>

NoError == [text |-> "", wait |-> None, advice |-> ""]
Returned(op, res) == [op |-> op, res |-> res, error |-> NoError]
Failed(op, e) == [op |-> op, res |-> "Err", error |-> e]
Running(op) == Returned(op, "running")
Message(text) == [text |-> text, wait |-> None, advice |-> ""]

\* Self::default(), before init
Init ==
    /\ base_url = ""
    /\ headers = <<>>
    /\ scanned_profiles = <<>>
    /\ scan_index = 0
    /\ pc = "uninit"
    /\ table_opts = <<>>
    /\ quals = <<>>
    /\ emails_to_fetch = <<>>
    /\ requests = <<>>
    /\ resps = <<>>
    /\ ret = Returned("none", "Ok")
    /\ row = <<>>
    /\ last_scan = "none"
    /\ rescanned = FALSE
    /\ iters = 0
    /\ served = <<>>
    /\ clock = None
    /\ columns = <<>>

\* What a call that is not a scan leaves of the last scan's observations.
NoScanObserved ==
    /\ table_opts' = <<>>
    /\ quals' = <<>>
    /\ emails_to_fetch' = <<>>
    /\ requests' = <<>>
    /\ resps' = <<>>
    /\ row' = <<>>
    /\ clock' = None
    /\ columns' = <<>>

(***************************************************************************)
(* init (lines 67-102)                                                     *)
(***************************************************************************)
UserAgent == <<"user-agent", "gravatar_fdw/version">>
Accept == <<"accept", "application/json">>
Authorization(key) == <<"authorization", "Bearer " \o key>>

\* Option::unwrap_or_default on the vault's answer
unwrap_or_default(o) == IF o.some THEN o.v ELSE ""

is_empty_never(text) == FALSE

\* String::is_empty
is_empty(text) == text = ""

init(opts, vault) ==
    /\ pc = "uninit"
    /\ base_url' = require_or(opts, "api_url", DefaultApiUrl)
    /\ scanned_profiles' = <<>>
    /\ scan_index' = 0
    /\ LET api_key == opts_get(opts, "api_key")
           api_key_id == opts_get(opts, "api_key_id")
           vault_api_key == unwrap_or_default(vault)
       IN  IF api_key.some
           THEN /\ headers' = <<UserAgent, Accept, Authorization(api_key.v)>>
                /\ ret' = Returned("init", "Ok")
                /\ pc' = "idle"
           ELSE IF api_key_id.some
           THEN IF ~is_empty(vault_api_key)
                THEN /\ headers' = <<UserAgent, Accept, Authorization(vault_api_key)>>
                     /\ ret' = Returned("init", "Ok")
                     /\ pc' = "idle"
                ELSE /\ headers' = <<UserAgent, Accept>>
                     /\ ret' = Failed("init", Message("Failed to retrieve API key from Vault"))
                     /\ pc' = "failed"
           ELSE /\ headers' = <<UserAgent, Accept>>
                /\ ret' = Returned("init", "Ok")
                /\ pc' = "idle"
    /\ NoScanObserved
    /\ UNCHANGED <<last_scan, rescanned, iters, served>>

(***************************************************************************)
(* begin_scan (lines 104-201)                                              *)
(***************************************************************************)
clear_nothing(v) == v

\* Vec::clear
clear(v) == <<>>

on_lookup_field_any_operator(qual) == qual.field = "email"

\* line 121: the predicate is an equality on the lookup field
on_lookup_field(qual) == qual.field = "email" /\ qual.operator = "="

\* line 122: its operand is a single string cell
is_string_operand(value) == value.kind = "Cell" /\ value.cell.t = "String"

\* The qual loop (lines 119-126): the operands pushed, in the host's order
RECURSIVE collect_emails(_, _)
collect_emails(qs, acc) ==
    IF qs = <<>> THEN acc
    ELSE LET qual == Head(qs) IN
         collect_emails(Tail(qs),
             IF on_lookup_field(qual) /\ is_string_operand(qual.value)
             THEN Append(acc, qual.value.cell.s)
             ELSE acc)

Rejected_ignoring_case(topts) ==
    require_or(topts, "table", PROFILES_OBJECT) \notin {PROFILES_OBJECT, "Profiles"}

\* Lines 112-114: the table option, "profiles" when unset, is not "profiles"
Rejected(topts) == require_or(topts, "table", PROFILES_OBJECT) # PROFILES_OBJECT

\* Lines 104-132: clear, check the table, collect the keys; with keys to
\* fetch the call goes on in the fetch loop.
begin_scan(topts, q) ==
    /\ pc = "idle"
    /\ scanned_profiles' = clear(scanned_profiles)
    /\ scan_index' = 0
    /\ quals' = q
    /\ LET emails == collect_emails(q, <<>>)
       IN  IF Rejected(topts)
           THEN /\ emails_to_fetch' = <<>>
                /\ ret' = Failed("begin_scan", Message("Unsupported table"))
                /\ pc' = "idle"
                /\ last_scan' = "begin_scan:unsupported_table"
           ELSE /\ emails_to_fetch' = emails
                /\ IF emails = <<>>
                   THEN /\ ret' = Returned("begin_scan", "Ok")
                        /\ pc' = "idle"
                        /\ last_scan' = "begin_scan:Ok"
                   ELSE /\ ret' = Running("begin_scan")
                        /\ pc' = "fetch"
                        /\ last_scan' = "begin_scan"
    /\ table_opts' = topts
    /\ rescanned' = FALSE
    /\ requests' = <<>>
    /\ resps' = <<>>
    /\ row' = <<>>
    /\ iters' = 0
    /\ served' = <<>>
    /\ clock' = None
    /\ columns' = <<>>
    /\ UNCHANGED <<base_url, headers>>

\* Header names, lower-cased (str::to_lowercase on the names the model uses)
lower_name(name) ==
    CASE name = "X-RateLimit-Reset" -> "x-ratelimit-reset"
      [] name = "Authorization" -> "authorization"
      [] OTHER -> name

\* Iterator::find on a header list: the first header of that lower-cased name
RECURSIVE find_header(_, _)
find_header(hdrs, name) ==
    IF hdrs = <<>> THEN None
    ELSE IF lower_name(Head(hdrs)[1]) = name THEN Some(Head(hdrs))
    ELSE find_header(Tail(hdrs), name)

Digits == <<"0", "1", "2", "3", "4", "5", "6", "7", "8", "9">>
is_digit(c) == \E d \in 1..Len(Digits) : Digits[d] = c
digit_value(c) == (CHOOSE d \in 1..Len(Digits) : Digits[d] = c) - 1

\* checked_mul(10) then checked_add(d) on a u64: an error on overflow
checked_mul10_add(x, d) ==
    LET t1 == x[1] * 10 + d
        t2 == x[2] * 10 + t1 \div Limb
        t3 == x[3] * 10 + t2 \div Limb
        t4 == x[4] * 10 + t3 \div Limb
    IN  IF t4 >= Limb THEN ParseErr
        ELSE ParseOk(<<t1 % Limb, t2 % Limb, t3 % Limb, t4>>)

RECURSIVE digits_value(_, _)
digits_value(s, acc) ==
    IF s = <<>> THEN ParseOk(acc)
    ELSE LET next == checked_mul10_add(acc, digit_value(Head(s))) IN
         IF next.ok THEN digits_value(Tail(s), next.value) ELSE ParseErr

\* str::parse::<u64>: an optional "+", then digits only, no overflow
parse_u64(s) ==
    LET body == IF s # <<>> /\ Head(s) = "+" THEN Tail(s) ELSE s IN
    IF body = <<>> \/ \E i \in 1..Len(body) : ~is_digit(body[i])
    THEN ParseErr
    ELSE digits_value(body, U64(0))

wait_seconds_wrapping(reset_timestamp, current_time) ==
    u64_sub(reset_timestamp, current_time)

\* Lines 158-162
wait_seconds(reset_timestamp, current_time) ==
    IF u64_gt(reset_timestamp, current_time)
    THEN u64_sub(reset_timestamp, current_time)
    ELSE U64(0)

\* Lines 148-173: the message of the rate-limit error
rate_limit_error(resp, now, hdrs) ==
    LET using_api_key == find_header(hdrs, "authorization").some
        reset_header == find_header(resp.headers, "x-ratelimit-reset")
        reset == IF reset_header.some THEN parse_u64(reset_header.v[2]) ELSE ParseErr
    IN  [text |-> "Rate limit exceeded (429).",
         wait |-> IF reset.ok THEN Some(wait_seconds(reset.value, as_u64(now))) ELSE None,
         advice |-> IF using_api_key
                    THEN "Please contact Gravatar to increase your usage limit."
                    ELSE "Consider getting an API key"]

outcome_not_found_fatal(resp) ==
    IF resp.err THEN "transport_error"
    ELSE IF resp.status_code = 429 THEN "rate_limited"
    ELSE IF resp.status_code = 200 /\ from_str(resp.body).ok THEN "resolved"
    ELSE "parse_error"

outcome_rate_limit_skipped(resp) ==
    IF resp.err THEN "transport_error"
    ELSE IF resp.status_code = 200
         THEN IF from_str(resp.body).ok THEN "resolved" ELSE "parse_error"
    ELSE "skipped"

outcome_transport_skipped(resp) ==
    IF resp.err THEN "skipped"
    ELSE IF resp.status_code = 429 THEN "rate_limited"
    ELSE IF resp.status_code = 200
         THEN IF from_str(resp.body).ok THEN "resolved" ELSE "parse_error"
    ELSE "skipped"

\* Lines 145-195: what one answer of http::get does to the scan
outcome(resp) ==
    IF resp.err THEN "transport_error"
    ELSE IF resp.status_code = 429 THEN "rate_limited"
    ELSE IF resp.status_code = 200
         THEN IF from_str(resp.body).ok THEN "resolved" ELSE "parse_error"
    ELSE "skipped"

Fatal == {"transport_error", "rate_limited", "parse_error"}

\* Lines 182-184: the lookup key goes into an object under "email"
with_email(profile, email) ==
    IF profile.t = "Object"
    THEN JObj(map_insert(profile.m, "email", JStr(email)))
    ELSE profile

next_key_from_back(emails, done) == emails[Len(emails) - done]

\* Line 135: the iterator's next key, after `done` turns of the loop
next_key(emails, done) == emails[done + 1]

\* One turn of the fetch loop (lines 135-196), and lines 198-200 after the
\* last key.
fetch(resp, now) ==
    /\ pc = "fetch"
    /\ LET i == Len(requests) + 1
           email == next_key(emails_to_fetch, Len(requests))
           req == [method |-> "Get", url |-> build_url(base_url, email),
                   headers |-> headers, body |-> ""]
           what == outcome(resp)
           error == CASE what = "transport_error" -> Message("http error")
                      [] what = "rate_limited" -> rate_limit_error(resp, now, headers)
                      [] OTHER -> Message("Failed to parse JSON response")
       IN  /\ requests' = Append(requests, req)
           /\ resps' = Append(resps, resp)
           /\ clock' = IF what = "rate_limited" /\ error.wait.some THEN Some(now) ELSE None
           /\ scanned_profiles' =
                 IF what = "resolved"
                 THEN Append(scanned_profiles, with_email(from_str(resp.body).value, email))
                 ELSE scanned_profiles
           /\ IF what \in Fatal
              THEN /\ ret' = Failed("begin_scan", error)
                   /\ pc' = "idle"
                   /\ last_scan' = "begin_scan:" \o what
              ELSE IF i = Len(emails_to_fetch)
              THEN /\ ret' = Returned("begin_scan", "Ok")
                   /\ pc' = "idle"
                   /\ last_scan' = "begin_scan:Ok"
              ELSE UNCHANGED <<ret, pc, last_scan>>
    /\ UNCHANGED <<base_url, headers, scan_index, table_opts, quals, emails_to_fetch,
                   row, rescanned, iters, served, columns>>

(***************************************************************************)
(* iter_scan, re_scan, end_scan (lines 203-273)                            *)
(***************************************************************************)
at_end_past(index, profiles) == index > Len(profiles)

\* line 206
at_end(index, profiles) == index >= Len(profiles)

advance_twice(index) == index + 2

\* line 257
advance(index) == index + 1

iter_scan(cols) ==
    /\ pc = "idle"
    /\ iters < MaxIters
    /\ iters' = iters + 1
    /\ columns' = cols
    /\ IF at_end(scan_index, scanned_profiles)
       THEN /\ ret' = Returned("iter_scan", "None")
            /\ row' = <<>>
            /\ UNCHANGED <<scan_index, served>>
       ELSE IF scan_index >= Len(scanned_profiles)
       THEN \* indexing past the end of the Vec panics
            /\ ret' = Returned("iter_scan", "panic")
            /\ row' = <<>>
            /\ UNCHANGED <<scan_index, served>>
       ELSE LET profile == scanned_profiles[scan_index + 1] IN
            /\ row' = project(profile, cols)
            /\ scan_index' = advance(scan_index)
            /\ served' = Append(served, profile)
            /\ ret' = Returned("iter_scan", "Some(0)")
    /\ table_opts' = <<>>
    /\ quals' = <<>>
    /\ emails_to_fetch' = <<>>
    /\ requests' = <<>>
    /\ resps' = <<>>
    /\ clock' = None
    /\ UNCHANGED <<base_url, headers, scanned_profiles, pc, last_scan, rescanned>>

re_scan_discards ==
    /\ pc = "idle"
    /\ scan_index' = 0
    /\ scanned_profiles' = <<>>
    /\ ret' = Returned("re_scan", "Ok")
    /\ rescanned' = TRUE
    /\ iters' = 0
    /\ served' = <<>>
    /\ NoScanObserved
    /\ UNCHANGED <<base_url, headers, pc, last_scan>>

re_scan ==
    /\ pc = "idle"
    /\ scan_index' = 0
    /\ ret' = Returned("re_scan", "Ok")
    /\ rescanned' = TRUE
    /\ iters' = 0
    /\ served' = <<>>
    /\ NoScanObserved
    /\ UNCHANGED <<base_url, headers, scanned_profiles, pc, last_scan>>

end_scan_keeps_cursor ==
    /\ pc = "idle"
    /\ scanned_profiles' = clear(scanned_profiles)
    /\ ret' = Returned("end_scan", "Ok")
    /\ last_scan' = "end_scan"
    /\ rescanned' = FALSE
    /\ iters' = 0
    /\ served' = <<>>
    /\ NoScanObserved
    /\ UNCHANGED <<base_url, headers, scan_index, pc>>

end_scan ==
    /\ pc = "idle"
    /\ scanned_profiles' = clear(scanned_profiles)
    /\ scan_index' = 0
    /\ ret' = Returned("end_scan", "Ok")
    /\ last_scan' = "end_scan"
    /\ rescanned' = FALSE
    /\ iters' = 0
    /\ served' = <<>>
    /\ NoScanObserved
    /\ UNCHANGED <<base_url, headers, pc>>

(***************************************************************************)
(* The modify path (lines 275-293)                                         *)
(***************************************************************************)
Modify_rewinds(op, r) ==
    /\ pc = "idle"
    /\ ret' = r
    /\ scan_index' = 0
    /\ NoScanObserved
    /\ UNCHANGED <<base_url, headers, scanned_profiles, pc, last_scan, rescanned, iters,
                   served>>

Modify(op, r) ==
    /\ pc = "idle"
    /\ ret' = r
    /\ NoScanObserved
    /\ UNCHANGED <<this, pc, last_scan, rescanned, iters, served>>

begin_modify ==
    Modify("begin_modify",
           Failed("begin_modify", Message("modify on foreign table is not supported")))
insert == Modify("insert", Returned("insert", "Ok"))
update == Modify("update", Returned("update", "Ok"))
delete == Modify("delete", Returned("delete", "Ok"))
end_modify == Modify("end_modify", Returned("end_modify", "Ok"))

(***************************************************************************)
(* Specifications                                                          *)
(***************************************************************************)
\* A rejected table returns before the predicates are read.
BeginScan(Q) ==
    \E topts \in TableOptions :
        \E q \in (IF Rejected(topts) THEN {<<>>} ELSE Q) : begin_scan(topts, q)

InitCall == \E opts \in ServerOptions : init(opts, None)
BeginScanCall == BeginScan(ScanQuals)
FetchStep == \E resp \in ScanResponses, now \in ClockValues : fetch(resp, now)
IterScanCall == \E cols \in ColumnLists : iter_scan(cols)

\* The host's calls in any order, each run to its return before the next.
Next ==
    \/ InitCall
    \/ BeginScanCall
    \/ FetchStep
    \/ IterScanCall
    \/ re_scan
    \/ end_scan
    \/ begin_modify
    \/ insert
    \/ update
    \/ delete
    \/ end_modify

Spec == Init /\ [][Next]_vars

\* Scans over predicate lists of every shape, against a transport that
\* answers every request with a profile.
InitDefault == init(<<>>, None)
BeginScanAnyQuals == BeginScan(AllQuals)
FetchProfile == \E now \in ClockValues : fetch(Resp200, now)

NextQuals ==
    \/ InitDefault
    \/ BeginScanAnyQuals
    \/ FetchProfile
    \/ IterScanCall
    \/ end_scan

SpecQuals == Init /\ [][NextQuals]_vars

\* Scans against a transport that answers with a profile or a rate limit,
\* under every clock value.
BeginScanRate == BeginScan(RateQuals)
FetchRate == \E resp \in RateResponses, now \in RateClockValues : fetch(resp, now)

NextRate ==
    \/ InitCall
    \/ BeginScanRate
    \/ FetchRate

SpecRate == Init /\ [][NextRate]_vars

\* Every way of initialising, each followed by scans whose requests carry
\* the headers init built.
InitAny == \E opts \in InitOptions, vault \in VaultAnswers : init(opts, vault)
FetchAny == \E resp \in {Resp200, Resp404}, now \in ClockValues : fetch(resp, now)

NextInit ==
    \/ InitAny
    \/ BeginScanRate
    \/ FetchAny

SpecInit == Init /\ [][NextInit]_vars

\* One scan for one or two keys of any spelling, none of them found.
BeginScanKeys == last_scan = "none" /\ \E q \in KeyQuals : begin_scan(<<>>, q)
FetchNotFound == \E now \in ClockValues : fetch(Resp404, now)

NextKeys ==
    \/ InitDefault
    \/ BeginScanKeys
    \/ FetchNotFound

SpecKeys == Init /\ [][NextKeys]_vars

\* Scans against a transport that answers with JSON documents of several
\* shapes, read through column lists of several shapes.
BeginScanRows == \E topts \in RowTableOptions, q \in RowQuals : begin_scan(topts, q)
FetchRows == \E resp \in RowResponses, now \in ClockValues : fetch(resp, now)
IterScanRows == \E cols \in RowColumnLists : iter_scan(cols)

NextRows ==
    \/ InitDefault
    \/ BeginScanRows
    \/ FetchRows
    \/ IterScanRows

SpecRows == Init /\ [][NextRows]_vars

(***************************************************************************)
(* Properties                                                              *)
(***************************************************************************)
AfterInit == pc \in {"idle", "fetch"}

\* A step that is an iter_scan call.
IterStep == iters' = iters + 1

\* An answer that is neither a success nor a rate limit, and one that ends
\* the scan.
IsSkip(r) == ~r.err /\ r.status_code \notin {200, 429}
IsGood(r) == ~r.err /\ r.status_code = 200 /\ r.body = BodyProfile
IsScanFatal(r) == ~r.err /\ (r.status_code = 429 \/ (r.status_code = 200 /\ r.body # BodyProfile))

\* The positions of a list that satisfy a test, in order.
RECURSIVE Positions(_, _, _)
Positions(seq, Test(_), i) ==
    IF i > Len(seq) THEN <<>>
    ELSE (IF Test(seq[i]) THEN <<i>> ELSE <<>>) \o Positions(seq, Test, i + 1)

\* C1: after init the cursor stays within 0..length of the buffer, and an
\* iter_scan call returns end-of-scan exactly when the cursor it finds
\* equals that length.
C1_CursorInRange ==
    /\ [](AfterInit => (0 <= scan_index /\ scan_index <= Len(scanned_profiles)))
    /\ [][IterStep =>
            (ret'.res = "None" <=> scan_index = Len(scanned_profiles))]_vars

C1_Witness ==
    /\ ret.op = "iter_scan"
    /\ ret.res = "None"
    /\ scan_index = Len(scanned_profiles)
    /\ scan_index = 2

\* C2: after a successful begin_scan that buffered N records, the k-th
\* iter_scan call returns the k-th buffered record as a row for k <= N and
\* end-of-scan for k > N, and an end-of-scan call changes nothing.
C2_ExactlyNRows ==
    /\ [](last_scan = "begin_scan:Ok" /\ ~rescanned =>
            LET N == Len(scanned_profiles) IN
            /\ scan_index = Min(iters, N)
            /\ served = SubSeq(scanned_profiles, 1, Min(iters, N))
            /\ ret.op = "iter_scan" =>
                 /\ ret.res = IF iters <= N THEN "Some(0)" ELSE "None"
                 /\ iters <= N =>
                      \E cols \in ColumnLists : row = project(scanned_profiles[iters], cols)
                 /\ iters > N => row = <<>>)
    /\ [][IterStep =>
            /\ scanned_profiles' = scanned_profiles
            /\ ret'.res = "None" => UNCHANGED this]_vars

C2_Witness ==
    /\ last_scan = "begin_scan:Ok"
    /\ ~rescanned
    /\ Len(scanned_profiles) = 2
    /\ iters = 4
    /\ Len(served) = 2
    /\ ret.res = "None"

\* The record the buffer holds for a key answered with a profile.
RecordFor(key, resp) ==
    LET doc == from_str(resp.body).value IN
    [t |-> "Object",
     m |-> [k \in DOMAIN doc.m \cup {"email"} |->
               IF k = "email" THEN JStr(key) ELSE doc.m[k]]]

\* C3: when begin_scan returns success, the buffer is exactly the records
\* of the collected keys answered with status 200, one per key occurrence,
\* in extraction order, and nothing else.
C3_BufferIsThisScan ==
    (ret.op = "begin_scan" /\ ret.res = "Ok") =>
        LET hits == Positions(resps, IsGood, 1) IN
        /\ Len(resps) = Len(emails_to_fetch)
        /\ \A i \in 1..Len(resps) : ~resps[i].err /\ resps[i].status_code = 200 => IsGood(resps[i])
        /\ Len(scanned_profiles) = Len(hits)
        /\ \A j \in 1..Len(hits) :
              scanned_profiles[j] = RecordFor(emails_to_fetch[hits[j]], resps[hits[j]])

C3_Witness ==
    /\ ret.op = "begin_scan"
    /\ ret.res = "Ok"
    /\ emails_to_fetch = <<KeyA, KeyB, KeyA>>
    /\ resps = <<Resp200, Resp404, Resp200>>
    /\ Len(scanned_profiles) = 2
    /\ scanned_profiles[1] = scanned_profiles[2]

C5_FatalStopsRequests ==
    ret.op = "begin_scan" =>
        \A i \in 1..Len(resps) :
            IsScanFatal(resps[i]) =>
                /\ pc = "idle"
                /\ ret.res = "Err"
                /\ Len(resps) = i
                /\ Len(requests) = i

C5_Witness ==
    /\ ret.op = "begin_scan"
    /\ ret.res = "Err"
    /\ Len(emails_to_fetch) = 3
    /\ resps = <<Resp200, Resp200Bad>>
    /\ Len(requests) = 2

\* C6: after a begin_scan that ended on a 429 or on a malformed 200 body,
\* iter_scan hands out none of the records resolved before the failure.
C6_NoPartialRows ==
    last_scan \in {"begin_scan:rate_limited", "begin_scan:parse_error"} => served = <<>>

\* C7: re_scan sets the cursor to 0 and returns success, leaving the buffer,
\* the base URL and the headers as they were; the records read before it
\* are the first records of the buffer it leaves, and the iter_scan calls
\* after it read that buffer again from its first record, in order.
C7_ReScanRewinds ==
    /\ [][ret'.op = "re_scan" =>
            /\ scan_index' = 0
            /\ ret'.res = "Ok"
            /\ UNCHANGED <<scanned_profiles, base_url, headers>>
            /\ served = SubSeq(scanned_profiles', 1, Len(served))]_vars
    /\ [][rescanned /\ IterStep => scanned_profiles' = scanned_profiles]_vars
    /\ [](rescanned =>
            LET N == Len(scanned_profiles) IN
            /\ scan_index = Min(iters, N)
            /\ served = SubSeq(scanned_profiles, 1, Min(iters, N))
            /\ ret.op = "iter_scan" => ret.res = IF iters <= N THEN "Some(0)" ELSE "None")

C7_Witness ==
    /\ rescanned
    /\ last_scan = "begin_scan:Ok"
    /\ Len(scanned_profiles) = 2
    /\ scanned_profiles[1] # scanned_profiles[2]
    /\ iters = 2
    /\ served = scanned_profiles

\* C8: end_scan returns success and leaves the buffer empty and the cursor
\* at 0, with the base URL and the headers as they were; until the next
\* begin_scan every iter_scan, also after re_scan, returns end-of-scan.
C8_EndScanClears ==
    /\ [][ret'.op = "end_scan" =>
            /\ ret'.res = "Ok"
            /\ scanned_profiles' = <<>>
            /\ scan_index' = 0
            /\ UNCHANGED <<base_url, headers>>]_vars
    /\ [](last_scan = "end_scan" =>
            /\ scanned_profiles = <<>>
            /\ scan_index = 0
            /\ served = <<>>
            /\ ret.op = "iter_scan" => (ret.res = "None" /\ row = <<>>))

C8_Witness ==
    /\ last_scan = "end_scan"
    /\ rescanned
    /\ ret.op = "iter_scan"
    /\ ret.res = "None"
    /\ iters = 2

\* A predicate on the lookup field with the equality operator.
IsEmailEquality(q) == q.field = "email" /\ q.operator = "="
HasStringOperand(q) == q.value.kind = "Cell" /\ q.value.cell.t = "String"
NoQualifying(qs) == \A i \in 1..Len(qs) : ~IsEmailEquality(qs[i])

ReturnedFromScanOf(qs) ==
    /\ ret.op = "begin_scan"
    /\ pc = "idle"
    /\ ~Rejected(table_opts)
    /\ quals = qs

\* C9: a begin_scan on the supported table with no qualifying predicate
\* returns success with no request issued and an empty buffer, and the
\* iter_scan after it returns end-of-scan with no row.
C9_NoKeysNoRows ==
    /\ [](ReturnedFromScanOf(quals) /\ NoQualifying(quals) =>
            /\ ret.res = "Ok"
            /\ requests = <<>>
            /\ scanned_profiles = <<>>
            /\ scan_index = 0)
    /\ [][ReturnedFromScanOf(quals) /\ NoQualifying(quals) /\ IterStep =>
            /\ ret'.res = "None"
            /\ row' = <<>>
            /\ served' = <<>>]_vars

C9_Witness ==
    /\ ReturnedFromScanOf(<<QualName, QualNe>>)
    /\ ret.res = "Ok"
    /\ requests = <<>>
    /\ scanned_profiles = <<>>

\* C10 as stated: the keys collected are the operands of the predicates on
\* the lookup field with the equality operator, in the host's order.
C10_EveryEqualityOperand ==
    (ret.op = "begin_scan" /\ ~Rejected(table_opts)) =>
        LET sel == SelectSeq(quals, IsEmailEquality) IN
        /\ Len(emails_to_fetch) = Len(sel)
        /\ \A i \in 1..Len(sel) : sel[i].value = ValueCell(CellString(emails_to_fetch[i]))

\* C10, amended: the keys collected are the operands of the predicates on
\* the lookup field with the equality operator whose operand is a single
\* string cell, in the host's order and with duplicates kept; no other
\* predicate adds a key or makes the call fail.
C10_StringEqualityOperands ==
    (ret.op = "begin_scan" /\ ~Rejected(table_opts)) =>
        LET sel == SelectSeq(quals, LAMBDA q : IsEmailEquality(q) /\ HasStringOperand(q)) IN
        /\ emails_to_fetch = [i \in 1..Len(sel) |-> sel[i].value.cell.s]
        /\ ret.res # "Err"

C10_Witness ==
    /\ ret.op = "begin_scan"
    /\ quals = <<QualA, QualName, QualB>>
    /\ emails_to_fetch = <<KeyA, KeyB>>
    /\ ret.res = "Ok"
    /\ Len(scanned_profiles) = 2

(***************************************************************************)
(* The wait estimate of a rate-limit error                                 *)
(***************************************************************************)
\* begin_scan has just returned the rate-limit error.
RateLimited == ret.op = "begin_scan" /\ last_scan = "begin_scan:rate_limited"

\* The value of the answer's reset header, whatever the case of its name.
ResetText(r) ==
    LET at == {i \in 1..Len(r.headers) :
                  r.headers[i][1] \in {"x-ratelimit-reset", "X-RateLimit-Reset"}}
    IN  IF at = {} THEN None ELSE Some(r.headers[CHOOSE i \in at : TRUE][2])

\* The header values that are decimal integers, the integer of the small
\* ones, and the unsigned 64-bit number of those that are one.
IsInteger(text) == text # TextSoon
SmallInteger(text) ==
    CASE text = Text0 -> Some(0)
      [] text \in {Text150, TextPlus150} -> Some(150)
      [] text = TextMinus5 -> Some(-5)
      [] OTHER -> None
UnsignedValue(text) ==
    CASE text = Text0 -> Some(<<0, 0, 0, 0>>)
      [] text \in {Text150, TextPlus150} -> Some(<<150, 0, 0, 0>>)
      [] text = TextU64Max -> Some(<<65535, 65535, 65535, 65535>>)
      [] OTHER -> None

\* The integer of an i64 that fits 32 bits (two's complement).
SignedValue(limbs) ==
    IF limbs[4] = 0 /\ limbs[3] = 0 /\ limbs[2] < 32768
    THEN Some(limbs[2] * 65536 + limbs[1])
    ELSE IF limbs[4] = 65535 /\ limbs[3] = 65535 /\ limbs[2] >= 32768
    THEN Some((limbs[2] - 65536) * 65536 + limbs[1])
    ELSE None

Max(a, b) == IF a > b THEN a ELSE b

\* a <= b as unsigned numbers, from limb i down
RECURSIVE UnsignedLeq(_, _, _)
UnsignedLeq(a, b, i) ==
    IF i = 0 THEN TRUE
    ELSE IF a[i] # b[i] THEN a[i] < b[i]
    ELSE UnsignedLeq(a, b, i - 1)

\* a + b as unsigned numbers, with the carry out of the top limb
UnsignedSum(a, b) ==
    LET s1 == a[1] + b[1]
        s2 == a[2] + b[2] + s1 \div 65536
        s3 == a[3] + b[3] + s2 \div 65536
        s4 == a[4] + b[4] + s3 \div 65536
    IN  [limbs |-> <<s1 % 65536, s2 % 65536, s3 % 65536, s4 % 65536>>,
         carry |-> s4 \div 65536]

\* C11 as stated: on a 429 whose x-ratelimit-reset header is a decimal
\* integer, the error carries the wait estimate max(0, reset - clock), for
\* every integer header value and every clock value.
C11_WaitForEveryInteger ==
    RateLimited =>
        LET text == ResetText(resps[Len(resps)])
            wait == ret.error.wait
        IN  text.some /\ IsInteger(text.v) =>
                /\ wait.some
                /\ clock.some
                /\ SmallInteger(text.v).some /\ SignedValue(clock.v).some =>
                       wait.v = U64(Max(0, SmallInteger(text.v).v - SignedValue(clock.v).v))

\* C11, amended: on a 429 whose x-ratelimit-reset header parses as an
\* unsigned 64-bit decimal integer, the error carries the wait estimate
\* max(0, reset - now), never negative, where now is the clock value read as
\* an unsigned 64-bit number; with any other header value, a negative
\* integer or one above 2^64 - 1 included, it carries no wait estimate.
C11_WaitIsUnsignedDifference ==
    RateLimited =>
        LET text == ResetText(resps[Len(resps)])
            reset == IF text.some THEN UnsignedValue(text.v) ELSE None
            wait == ret.error.wait
        IN  IF reset.some
            THEN /\ wait.some
                 /\ clock.some
                 /\ \/ /\ UnsignedLeq(reset.v, clock.v, 4)
                       /\ wait.v = <<0, 0, 0, 0>>
                    \/ /\ ~UnsignedLeq(reset.v, clock.v, 4)
                       /\ UnsignedSum(clock.v, wait.v) = [limbs |-> reset.v, carry |-> 0]
            ELSE ~wait.some /\ ~clock.some

\* A reset of 150 under a mixed-case header name at clock 100: wait 50.
C11_Witness ==
    /\ RateLimited
    /\ resps[Len(resps)] = Rate429("X-RateLimit-Reset", Text150)
    /\ clock = Some(U64(100))
    /\ ret.error.wait = Some(<<50, 0, 0, 0>>)

(***************************************************************************)
(* Records and rows                                                        *)
(***************************************************************************)
\* The answers that add a record: status 200 with a JSON document as body.
JsonBodies == {BodyProfile, BodyUpstream, BodyArray, BodyTyped, BodyMistyped}
IsResolved(r) == ~r.err /\ r.status_code = 200 /\ r.body \in JsonBodies

\* iter_scan has just returned a row.
RowEmitted == ret.op = "iter_scan" /\ ret.res = "Some(0)"

\* C12: every record in the buffer carries the un-normalized key it was
\* fetched for under email, whatever email the upstream body had, and the
\* email column of every emitted row has a value.
C12_EveryRecordCarriesKey ==
    /\ ret.op = "begin_scan" =>
          LET hits == Positions(resps, IsResolved, 1) IN
          /\ Len(scanned_profiles) = Len(hits)
          /\ \A j \in 1..Len(hits) :
                LET record == scanned_profiles[j] IN
                /\ record.t = "Object"
                /\ "email" \in DOMAIN record.m
                /\ record.m["email"] = JStr(emails_to_fetch[hits[j]])
    /\ RowEmitted =>
          \A i \in 1..Len(columns) :
              columns[i].name = "email" => row[i].some /\ row[i].v.t = "String"

\* C13: a row-emitting iter_scan pushes one cell per requested column, in
\* the requested order; the cell of a named string, boolean or integer field
\* is the record's value of that shape, and the no-value marker when the
\* record lacks the field or holds a value of another shape; the cell of a
\* named JSON field has a value exactly when the record has the field; and
\* iter_scan returns a row or end-of-scan, never an error.
C13_OneCellPerColumn ==
    /\ ret.op = "iter_scan" => ret.res \in {"Some(0)", "None"}
    /\ RowEmitted =>
          LET record == served[Len(served)] IN
          /\ Len(row) = Len(columns)
          /\ \A i \in 1..Len(columns) :
                LET name == columns[i].name
                    present == record.t = "Object" /\ name \in DOMAIN record.m
                    shape == IF present THEN record.m[name].t ELSE "absent"
                IN  /\ name \in StringFields =>
                          row[i] = IF shape = "String"
                                   THEN Some(CellString(record.m[name].s)) ELSE None
                    /\ name = "is_organization" =>
                          row[i] = IF shape = "Bool"
                                   THEN Some(CellBool(record.m[name].b)) ELSE None
                    /\ name = "number_verified_accounts" =>
                          row[i] = IF shape = "Number"
                                   THEN Some(CellI64(record.m[name].n)) ELSE None
                    /\ name \in JsonFields =>
                          /\ row[i].some <=> present
                          /\ row[i].some => row[i].v.t = "Json"
                    /\ name = "json" => row[i].some /\ row[i].v.t = "Json"

\* A record whose named fields all have another shape than declared, read
\* through four columns: three no-value cells and the JSON text of links.
C13_Witness ==
    /\ RowEmitted
    /\ served[Len(served)].t = "Object"
    /\ served[Len(served)].m["hash"] = JNum(U64(5))
    /\ columns = <<Column("is_organization", "Bool"), Column("number_verified_accounts", "I64"),
                   Column("links", "Json"), Column("hash", "Bool")>>
    /\ row = <<None, None, Some(CellJson(<<"null">>)), None>>

(***************************************************************************)
(* The modify operations                                                   *)
(***************************************************************************)
ModifyOps == {"begin_modify", "insert", "update", "delete", "end_modify"}

\* C14: begin_modify returns the not-supported error and insert, update,
\* delete and end_modify return success; none of the five issues a request
\* or changes the buffer, the cursor, the base URL or the headers.
C14_ModifyIsInert ==
    /\ [](ret.op = "begin_modify" =>
             /\ ret.res = "Err"
             /\ ret.error.text = "modify on foreign table is not supported")
    /\ [](ret.op \in ModifyOps \ {"begin_modify"} => ret.res = "Ok" /\ ret.error = NoError)
    /\ [](ret.op \in ModifyOps => requests = <<>>)
    /\ [][ret'.op \in ModifyOps => UNCHANGED <<scanned_profiles, scan_index, base_url, headers>>]_vars

\* begin_modify refused in the middle of reading a buffer of two records.
C14_Witness ==
    /\ ret.op = "begin_modify"
    /\ ret.res = "Err"
    /\ Len(scanned_profiles) = 2
    /\ scan_index = 1

(***************************************************************************)
(* The table option                                                        *)
(***************************************************************************)
\* The table a scan names: its table option, profiles when it has none.
TableNamed(topts) ==
    LET at == {i \in 1..Len(topts) : topts[i][1] = "table"} IN
    IF at = {} THEN "profiles" ELSE topts[CHOOSE i \in at : \A j \in at : i <= j][2]

\* C15: a begin_scan whose table is not exactly profiles returns an error
\* whatever predicates it was given, issues no request and leaves the buffer
\* empty with the cursor at 0; until the next begin_scan no iter_scan
\* returns a row.
C15_OtherTableRejected ==
    /\ (ret.op = "begin_scan" /\ TableNamed(table_opts) # "profiles") =>
          /\ ret.res = "Err"
          /\ ret.error.text = "Unsupported table"
          /\ pc = "idle"
          /\ requests = <<>>
          /\ scanned_profiles = <<>>
          /\ scan_index = 0
          /\ last_scan = "begin_scan:unsupported_table"
    /\ last_scan = "begin_scan:unsupported_table" =>
          /\ scanned_profiles = <<>>
          /\ served = <<>>
          /\ ret.op = "iter_scan" => ret.res = "None"

\* The table Profiles, with two predicates that would each yield a key.
C15_Witness ==
    /\ ret.op = "begin_scan"
    /\ table_opts = <<<<"table", "Profiles">>>>
    /\ quals = <<QualA, QualB>>
    /\ ret.res = "Err"
    /\ requests = <<>>

(***************************************************************************)
(* init                                                                    *)
(***************************************************************************)
HasOption(opts, key) == \E i \in 1..Len(opts) : opts[i][1] = key
OptionValue(opts, key) == opts[CHOOSE i \in 1..Len(opts) : opts[i][1] = key][2]

\* How many headers of a list bear a name.
HeaderCount(hdrs, name) == Cardinality({i \in 1..Len(hdrs) : hdrs[i][1] = name})

\* What init must leave, given the server options and the vault's answer.
InitPost(opts, vault) ==
    LET secret_missing == ~vault.some \/ vault.v = ""
        fails == ~HasOption(opts, "api_key") /\ HasOption(opts, "api_key_id") /\ secret_missing
        key_configured ==
            HasOption(opts, "api_key") \/ (HasOption(opts, "api_key_id") /\ ~secret_missing)
        token == IF HasOption(opts, "api_key") THEN OptionValue(opts, "api_key") ELSE vault.v
    IN  /\ ret'.op = "init"
        /\ ret'.res = "Err" <=> fails
        /\ ret'.res = "Ok" <=> ~fails
        /\ ~fails =>
              /\ pc' = "idle"
              /\ HeaderCount(headers', "user-agent") = 1
              /\ HeaderCount(headers', "accept") = 1
              /\ <<"accept", "application/json">> \in {headers'[i] : i \in 1..Len(headers')}
              /\ HeaderCount(headers', "authorization") = IF key_configured THEN 1 ELSE 0
              /\ Len(headers') = IF key_configured THEN 3 ELSE 2
              /\ key_configured =>
                    <<"authorization", "Bearer " \o token>>
                        \in {headers'[i] : i \in 1..Len(headers')}

\* C16: after a successful init the headers are one user-agent, one accept:
\* application/json, and one authorization: Bearer header exactly when
\* api_key is set or api_key_id is set and the vault gave a non-empty
\* secret; init fails exactly when api_key is absent, api_key_id is set and
\* the vault gave nothing or an empty secret; and every request of a later
\* scan carries those headers.
C16_InitHeaders ==
    /\ [][\A opts \in InitOptions, vault \in VaultAnswers :
             init(opts, vault) => InitPost(opts, vault)]_vars
    /\ [](pc = "failed" <=> (ret.op = "init" /\ ret.res = "Err"))
    /\ [](\A i \in 1..Len(requests) : requests[i].headers = headers)

\* A secret from the vault, sent with the request of a scan.
C16_Witness ==
    /\ headers = <<UserAgent, Accept, <<"authorization", "Bearer s">>>>
    /\ base_url = "https://proxy"
    /\ Len(requests) = 1
    /\ requests[1].headers = headers

(***************************************************************************)
(* Key normalization                                                       *)
(***************************************************************************)
\* A key in lower case without the white space around it: lower-cased
\* first, then cut from its first to its last character that is not white.
Lowered(key) == [i \in 1..Len(key) |-> IF key[i] = "A" THEN "a" ELSE key[i]]
Normal(key) ==
    LET low == Lowered(key)
        ink == {i \in 1..Len(low) : low[i] \notin {" ", "\t"}}
    IN  IF ink = {} THEN <<>>
        ELSE SubSeq(low, CHOOSE i \in ink : \A j \in ink : i <= j,
                         CHOOSE i \in ink : \A j \in ink : j <= i)

\* C17: two keys that are equal after trimming and lower-casing are
\* requested under the same identifier and URL, and normalizing a
\* normalized key changes nothing: it has the identifier of the key it came
\* from.
C17_NormalizationInsensitive ==
    /\ \A i, j \in 1..Len(requests) :
          Normal(emails_to_fetch[i]) = Normal(emails_to_fetch[j]) =>
              /\ requests[i].url.id = requests[j].url.id
              /\ requests[i].url = requests[j].url
    /\ \A i \in 1..Len(requests) :
          LET normalized == to_lowercase(trim(emails_to_fetch[i])) IN
          /\ normalized = Normal(emails_to_fetch[i])
          /\ to_lowercase(trim(normalized)) = normalized
          /\ hash_email(normalized) = requests[i].url.id

\* Two spellings of one key, requested under one URL.
C17_Witness ==
    /\ emails_to_fetch = <<<<" ", "A">>, <<"a", "\t">>>>
    /\ Len(requests) = 2
    /\ requests[1].url = requests[2].url

(***************************************************************************)
(* Requests                                                                *)
(***************************************************************************)
\* C18: requests are issued only inside begin_scan, one at a time, each
\* answered before the next: the i-th request of a scan is for the i-th
\* collected key and no key occurrence is requested twice; the call of any
\* other operation issues none.
C18_RequestsOnlyInScan ==
    /\ [](ret.op # "begin_scan" => requests = <<>>)
    /\ [](/\ Len(requests) <= Len(emails_to_fetch)
          /\ Len(resps) = Len(requests)
          /\ \A i \in 1..Len(requests) :
                /\ requests[i].method = "Get"
                /\ requests[i].url = build_url(base_url, emails_to_fetch[i]))
    /\ [][requests' # requests /\ requests' # <<>> =>
             /\ pc = "fetch"
             /\ ret'.op = "begin_scan"
             /\ Len(requests') = Len(requests) + 1
             /\ SubSeq(requests', 1, Len(requests)) = requests]_vars

\* Three keys, one of them twice, requested in order through a skip.
C18_Witness ==
    /\ ret.op = "begin_scan"
    /\ ret.res = "Ok"
    /\ emails_to_fetch = <<KeyB, KeyA, KeyB>>
    /\ resps = <<Resp500, Resp200, Resp404>>
    /\ Len(requests) = 3
    /\ requests[1].url = requests[3].url
    /\ requests[1].url # requests[2].url

(***************************************************************************)
(* Columns outside the named fields                                        *)
(***************************************************************************)
NamedFields == StringFields \cup JsonFields \cup {"is_organization", "number_verified_accounts", "json"}

\* C19: the cell of a column that is not a named field is the record's
\* value under the column's name when that value has the column's type, and
\* the no-value marker otherwise; a 32-bit integer column emits the
\* record's integer or nothing, never another number.
C19_FallbackKeepsValue ==
    RowEmitted =>
        LET record == served[Len(served)] IN
        \A i \in 1..Len(columns) :
            LET name == columns[i].name
                type == columns[i].type_oid
                present == record.t = "Object" /\ name \in DOMAIN record.m
                shape == IF present THEN record.m[name].t ELSE "absent"
            IN  name \notin NamedFields =>
                  CASE type = "Bool" ->
                          row[i] = IF shape = "Bool"
                                   THEN Some(CellBool(record.m[name].b)) ELSE None
                    [] type = "String" ->
                          row[i] = IF shape = "String"
                                   THEN Some(CellString(record.m[name].s)) ELSE None
                    [] type = "I64" ->
                          row[i] = IF shape = "Number"
                                   THEN Some(CellI64(record.m[name].n)) ELSE None
                    [] type = "I32" ->
                          row[i] = IF shape = "Number" /\ SignedValue(record.m[name].n).some
                                   THEN Some(CellI32(SignedValue(record.m[name].n).v))
                                   ELSE None
                    [] type = "Json" -> row[i].some <=> present
                    [] OTHER -> row[i] = None

(***************************************************************************)
(* Transport failure                                                       *)
(***************************************************************************)
\* C20: when http::get itself fails for a key, begin_scan returns the error
\* at once: the failed request is the last one of the scan, the call has
\* returned an error and not gone on to the next key, and the buffer holds
\* the records of the keys answered with a profile before it, with the
\* cursor at 0.
C20_TransportErrorStops ==
    ret.op = "begin_scan" =>
        \A i \in 1..Len(resps) :
            resps[i].err =>
                LET hits == Positions(resps, IsGood, 1) IN
                /\ i = Len(resps)
                /\ Len(requests) = i
                /\ pc = "idle"
                /\ ret.res = "Err"
                /\ ret.error.text = "http error"
                /\ scan_index = 0
                /\ Len(scanned_profiles) = Len(hits)
                /\ \A j \in 1..Len(hits) :
                      scanned_profiles[j] = RecordFor(emails_to_fetch[hits[j]], resps[hits[j]])

\* The transport fails at the second of three keys: the first key's record
\* stays and the third key is never requested.
C20_Witness ==
    /\ ret.op = "begin_scan"
    /\ ret.res = "Err"
    /\ emails_to_fetch = <<KeyA, KeyB, KeyA>>
    /\ resps = <<Resp200, TransportErr>>
    /\ Len(requests) = 2
    /\ Len(scanned_profiles) = 1
    /\ scan_index = 0

====
